---------------------------- MODULE Spec2Model ----------------------------
(***************************************************************************)
(* A state-machine model of remote-sync (src/src/main.rs): main,          *)
(* RemoteSyncHelper::sync_locations, sync_location, sync_file and          *)
(* glob_location, together with the local and the remote filesystem the   *)
(* program reads and writes.  The program is sequential: pc is its         *)
(* position, every action is one call of the source (one I/O call with    *)
(* the `?` that follows it), and a failed call is a choice of the         *)
(* environment.                                                            *)
(***************************************************************************)
EXTENDS Integers, Sequences, FiniteSets, TLC

\* ------------------------------------------------------------------ bounds

\* Remote access times of the initial filesystem are drawn from 0..MaxTime.
MaxTime == 2
\* Depth of the remote trees the tree walk is run on (SpecWalk).
MaxDepth == 2
\* How many times the program is run in succession (SpecTwice).
MaxRuns == 2

\* ------------------------------------------------------------------- state

VARIABLES
    config,     \* the RemoteSyncHelper: [auto_sync, locations]
    touch,      \* per side: whether the filesystem moves atime on an access
    remote,     \* remote filesystem: path -> [kind, atime, data]
    local,      \* local filesystem: path -> [kind, atime, data]
    clock,      \* the wall clock (seconds) of the current run
    run,        \* number of the current run of the program
    pc,         \* position of the program
    li,         \* index of the location the for loop of sync_locations is at
    k,          \* index into loc.files of the stat loop of sync_location
    files,      \* sync_location / glob_location: Vec<(PathBuf, FileStat)>
    dirs,       \* glob_location: pending directories
    cur,        \* the arguments of the running sync_file call
    contents,   \* sync_file (push): the buffer read from the local file
    result,     \* what sync_locations returned in each run so far
    exit,       \* the exit code of main, "none" while it runs
    io,         \* history: every I/O call made, in order
    calls       \* history: every sync_file call made, in order

vars == <<config, touch, remote, local, clock, run, pc, li, k, files, dirs, cur,
          contents, result, exit, io, calls>>

\* ------------------------------------------------------------------- paths

\* A path is the sequence of its components; an absolute path starts with
\* the component "/".
IsAbsolute(p) == p # <<>> /\ p[1] = "/"

\* PathBuf::join: an absolute rel replaces base.
Join(base, rel) == IF IsAbsolute(rel) THEN rel ELSE base \o rel

IsPrefix(pre, p) ==
    /\ Len(pre) <= Len(p)
    /\ SubSeq(p, 1, Len(pre)) = pre

\* StripPrefix with the bug of keeping the file name when pre is no prefix.
StripPrefixLenient(p, pre) ==
    IF IsPrefix(pre, p)
    THEN [ok |-> TRUE, rel |-> SubSeq(p, Len(pre) + 1, Len(p))]
    ELSE [ok |-> TRUE, rel |-> SubSeq(p, Len(p), Len(p))]

\* Path::strip_prefix: Ok(the remainder), or Err(StripPrefixError).
StripPrefix(p, pre) ==
    IF IsPrefix(pre, p)
    THEN [ok |-> TRUE,  rel |-> SubSeq(p, Len(pre) + 1, Len(p))]
    ELSE [ok |-> FALSE, rel |-> <<>>]

\* -------------------------------------------------------------- filesystems

Node(kind, atime, data) == [kind |-> kind, atime |-> atime, data |-> data]

\* The filesystem holding the <<path, node>> pairs of S.
FsOf(S) == [p \in {e[1] : e \in S} |-> (CHOOSE e \in S : e[1] = p)[2]]

Exists(fs, p) == p \in DOMAIN fs
IsDirAt(fs, p) == Exists(fs, p) /\ fs[p].kind = "dir"

\* The entries of directory d.
Children(fs, d) == {p \in DOMAIN fs : Len(p) = Len(d) + 1 /\ IsPrefix(d, p)}

\* Every order a set of entries can be listed in.
Perms(S) ==
    {s \in [1..Cardinality(S) -> S] : \A x \in S : \E i \in DOMAIN s : s[i] = x}

\* ssh2 FileStat of a remote node.  Whether the server sent an access time
\* is looked at, and chosen, where atime is unwrapped (ForFiles).
FileStat(node) == [is_dir |-> node.kind = "dir", atime |-> node.atime]

\* What a successful Sftp::readdir of d returns: one (path, stat) per entry,
\* in an order of the server's choosing.
ReadDirResults(d) ==
    {[i \in DOMAIN s |-> [path |-> s[i], stat |-> FileStat(remote[s[i]])]] :
        s \in Perms(Children(remote, d))}

\* The filesystem after an access of p: where the filesystem keeps access
\* times current (on), the access moves p's to the current time.
Touched(fs, p, on) ==
    IF on /\ Exists(fs, p)
    THEN [fs EXCEPT ![p].atime = clock]
    ELSE fs

\* ---------------------------------------------------------- configurations

Location(name, lp, rp, fs) ==
    [name |-> name, local_path |-> lp, remote_path |-> rp, files |-> fs]

\* A location synchronized as a whole tree, and one with an explicit list.
LocTree == Location("A", <<"la">>, <<"ra">>, <<>>)
LocList == Location("B", <<"lb">>, <<"rb">>, << <<"g">>, <<"h">> >>)

\* A location whose list names a file by an absolute path.
LocAbs  == Location("C", <<"lc">>, <<"rc">>, << <<"k">>, <<"/", "e">> >>)

Configs == {<<LocTree, LocList>>, <<LocList, LocTree>>, <<LocTree, LocAbs>>}

LocalData == <<1>>
RemoteData == <<2, 2>>

Kinds == {"file", "dir", "absent"}

Present(S) == {e \in S : e[2].kind # "absent"}

\* The remote side: the tree ra/{a, d/{b}}, rb/{g, h, x}, rc/{k} and /e; x
\* is in no list, and g and h were last accessed at the same time.
RemoteFs(ta, tb, tg, kg) ==
    FsOf(Present({
        << <<"ra">>,           Node("dir",  0,  <<>>) >>,
        << <<"ra", "a">>,      Node("file", ta, RemoteData) >>,
        << <<"ra", "d">>,      Node("dir",  0,  <<>>) >>,
        << <<"ra", "d", "b">>, Node("file", tb, RemoteData) >>,
        << <<"rb">>,           Node("dir",  0,  <<>>) >>,
        << <<"rb", "g">>,      Node(kg,     tg, IF kg = "file" THEN RemoteData ELSE <<>>) >>,
        << <<"rb", "h">>,      Node("file", tg, RemoteData) >>,
        << <<"rb", "x">>,      Node("file", 0,  RemoteData) >>,
        << <<"rc">>,           Node("dir",  0,  <<>>) >>,
        << <<"rc", "k">>,      Node("file", 1,  RemoteData) >>,
        << <<"/", "e">>,       Node("file", 0,  RemoteData) >> }))

\* The local side; every local file was last accessed at time 1.
LocalFs(ka, kg) ==
    FsOf(Present({
        << <<"la">>,           Node("dir", 1, <<>>) >>,
        << <<"la", "a">>,      Node(ka,    1, LocalData) >>,
        << <<"la", "d">>,      Node("dir", 1, <<>>) >>,
        << <<"la", "d", "b">>, Node("file", 1, LocalData) >>,
        << <<"lb">>,           Node("dir", 1, <<>>) >>,
        << <<"lb", "g">>,      Node(kg,    1, IF kg = "file" THEN LocalData ELSE <<>>) >>,
        << <<"lb", "h">>,      Node("file", 1, LocalData) >>,
        << <<"lc">>,           Node("dir", 1, <<>>) >>,
        << <<"lc", "k">>,      Node("file", 1, LocalData) >>,
        << <<"lc", "e">>,      Node("file", 1, LocalData) >> }))

Times == 0..MaxTime

NoPair == [local |-> <<>>, ldate |-> 0, remote |-> <<>>, rdate |-> 0]

\* The program's own state at the start of main.
ProcessStart ==
    /\ pc = "main"
    /\ li = 1
    /\ k = 1
    /\ files = <<>>
    /\ dirs = <<>>
    /\ cur = NoPair
    /\ contents = <<>>
    /\ exit = "none"

Init ==
    /\ \E a \in BOOLEAN, ls \in Configs :
          config = [auto_sync |-> a, locations |-> ls]
    /\ touch \in [local : BOOLEAN, remote : BOOLEAN]
    /\ \E ta, tb, tg \in Times, kg \in Kinds :
          remote = RemoteFs(ta, tb, tg, kg)
    /\ \E ka \in {"file", "absent"}, kg \in Kinds :
          local = LocalFs(ka, kg)
    /\ clock = MaxTime + 1
    /\ run = 1
    /\ result = [r \in 1..MaxRuns |-> "none"]
    /\ io = <<>>
    /\ calls = <<>>
    /\ ProcessStart

\* ----------------------------------------------------------------- history

Loc == config.locations[li]

EvC(op, path, ok, c) ==
    [op |-> op, path |-> path, ok |-> ok, loc |-> li, run |-> run, call |-> c]

\* The positions inside sync_file.
InSyncFile ==
    {"push_open", "push_read", "push_send", "push_write", "pull_create",
     "pull_recv", "pull_copy", "send_eof", "wait_eof", "close", "wait_close",
     "updated"}

\* An I/O call made now; call is the number of the sync_file call it is made
\* in, 0 outside sync_file.
Ev(op, path, ok) ==
    EvC(op, path, ok, IF pc \in InSyncFile THEN Len(calls) ELSE 0)

\* ---------------------------------------------------------- sync_locations

\* sync_locations returns r to main.
Return(r) ==
    /\ result' = [result EXCEPT ![run] = r]
    /\ pc' = "returned"

\* The Err arm of the match in the for loop: the first location that fails
\* ends sync_locations.
Bail == Return("Err")

\* A call failed and its `?` (or context(..)?) returned the error: from
\* sync_file through sync_location to the bail! of sync_locations.
Fail(op, path) ==
    /\ io' = Append(io, Ev(op, path, FALSE))
    /\ Bail
    /\ UNCHANGED <<config, touch, remote, local, clock, run, li, k, dirs, cur,
                   contents, exit, calls>>

\* The same outside the loop over files, which is left as it is.
Raise(op, path) ==
    /\ Fail(op, path)
    /\ UNCHANGED files

\* A call succeeded and the program moves on to position next.
Proceed(op, path, next) ==
    /\ io' = Append(io, Ev(op, path, TRUE))
    /\ pc' = next
    /\ UNCHANGED <<config, touch, remote, local, clock, run, li, k, files, dirs, cur,
                   contents, result, exit, calls>>

\* SessionStep with the bug of going on after a failed step.
SessionStepUnchecked(at, op, next) ==
    /\ pc = at
    /\ \/ Proceed(op, <<>>, next)
       \/ /\ io' = Append(io, Ev(op, <<>>, FALSE))
          /\ pc' = next
          /\ UNCHANGED <<config, touch, remote, local, clock, run, li, k, files,
                         dirs, cur, contents, result, exit, calls>>

\* A step of the session set-up: it succeeds or its `?` returns the error.
SessionStep(at, op, next) ==
    /\ pc = at
    /\ \/ Proceed(op, <<>>, next)
       \/ Raise(op, <<>>)

Connect   == SessionStep("connect",   "connect",     "session")
NewSession == SessionStep("session",  "session_new", "handshake")
Handshake == SessionStep("handshake", "handshake",   "auth")
Userauth  == SessionStep("auth",      "userauth",    "locations")

\* The for loop over self.locations, and the Ok(()) after it.
NextLocation ==
    /\ pc = "locations"
    /\ IF li <= Len(config.locations)
       THEN /\ pc' = "sftp"
            /\ UNCHANGED result
       ELSE Return("Ok")
    /\ UNCHANGED <<config, touch, remote, local, clock, run, li, k, files, dirs, cur,
                   contents, exit, io, calls>>

\* ----------------------------------------------------------- sync_location

\* OpenSftp with the bug of walking the remote tree whatever loc.files holds.
OpenSftpWalksAlways ==
    /\ pc = "sftp"
    /\ \/ /\ io' = Append(io, Ev("sftp", <<>>, TRUE))
          /\ files' = <<>>
          /\ k' = 1
          /\ pc' = "glob_root"
          /\ UNCHANGED <<config, touch, remote, local, clock, run, li, dirs, cur,
                         contents, result, exit, calls>>
       \/ Raise("sftp", <<>>)

\* session.sftp()? and the choice between the tree walk and the file list.
OpenSftp ==
    /\ pc = "sftp"
    /\ \/ /\ io' = Append(io, Ev("sftp", <<>>, TRUE))
          /\ files' = <<>>
          /\ k' = 1
          /\ pc' = IF Loc.files = <<>> THEN "glob_root" ELSE "stat"
          /\ UNCHANGED <<config, touch, remote, local, clock, run, li, dirs, cur,
                         contents, result, exit, calls>>
       \/ Raise("sftp", <<>>)

IsDirEntry(e) == e.stat.is_dir
IsFileEntry(e) == ~e.stat.is_dir

\* The explicit list: handle.stat of remote_path.join(file); a file whose
\* stat fails is printed and left out.
StatFile ==
    /\ pc = "stat"
    /\ k <= Len(Loc.files)
    /\ LET path == Join(Loc.remote_path, Loc.files[k]) IN
        \/ /\ Exists(remote, path)
           /\ files' = Append(files,
                    [path |-> path, stat |-> FileStat(remote[path])])
           /\ io' = Append(io, Ev("stat", path, TRUE))
        \/ /\ files' = files
           /\ io' = Append(io, Ev("stat", path, FALSE))
    /\ k' = k + 1
    /\ UNCHANGED <<config, touch, remote, local, clock, run, pc, li, dirs, cur,
                   contents, result, exit, calls>>

StatDone ==
    /\ pc = "stat"
    /\ k > Len(Loc.files)
    /\ pc' = "for_files"
    /\ UNCHANGED <<config, touch, remote, local, clock, run, li, k, files, dirs, cur,
                   contents, result, exit, io, calls>>

\* ----------------------------------------------------------- glob_location

\* GlobRoot with the bug of leaving the directories of the root in files.
GlobRootKeepsDirs ==
    /\ pc = "glob_root"
    /\ LET root == Loc.remote_path IN
        \/ /\ IsDirAt(remote, root)
           /\ \E entries \in ReadDirResults(root) :
                /\ dirs' = SelectSeq(entries, IsDirEntry)
                /\ files' = entries
           /\ io' = Append(io, Ev("readdir", root, TRUE))
           /\ pc' = "glob_loop"
           /\ UNCHANGED <<config, touch, remote, local, clock, run, li, k, cur,
                          contents, result, exit, calls>>
        \/ Raise("readdir", root)

\* handle.readdir(&loc.remote_path)? and the first extract_if.
GlobRoot ==
    /\ pc = "glob_root"
    /\ LET root == Loc.remote_path IN
        \/ /\ IsDirAt(remote, root)
           /\ \E entries \in ReadDirResults(root) :
                /\ dirs' = SelectSeq(entries, IsDirEntry)
                /\ files' = SelectSeq(entries, IsFileEntry)
           /\ io' = Append(io, Ev("readdir", root, TRUE))
           /\ pc' = "glob_loop"
           /\ UNCHANGED <<config, touch, remote, local, clock, run, li, k, cur,
                          contents, result, exit, calls>>
        \/ Raise("readdir", root)

\* GlobLoop with the bug of appending the entries to files before the
\* directories are taken out of them.
GlobLoopKeepsDirs ==
    /\ pc = "glob_loop"
    /\ dirs # <<>>
    /\ LET d == dirs[1].path IN
        \/ /\ IsDirAt(remote, d)
           /\ \E entries \in ReadDirResults(d) :
                /\ dirs' = Tail(dirs \o SelectSeq(entries, IsDirEntry))
                /\ files' = files \o entries
           /\ io' = Append(io, Ev("readdir", d, TRUE))
           /\ UNCHANGED <<config, touch, remote, local, clock, run, pc, li, k, cur,
                          contents, result, exit, calls>>
        \/ Raise("readdir", d)

\* GlobLoop with the bug of leaving the listed directory in the queue.
GlobLoopKeepsHead ==
    /\ pc = "glob_loop"
    /\ dirs # <<>>
    /\ LET d == dirs[1].path IN
        \/ /\ IsDirAt(remote, d)
           /\ \E entries \in ReadDirResults(d) :
                /\ dirs' = dirs \o SelectSeq(entries, IsDirEntry)
                /\ files' = files \o SelectSeq(entries, IsFileEntry)
           /\ io' = Append(io, Ev("readdir", d, TRUE))
           /\ UNCHANGED <<config, touch, remote, local, clock, run, pc, li, k, cur,
                          contents, result, exit, calls>>
        \/ Raise("readdir", d)

\* GlobLoop with the bug of passing over a directory that cannot be listed.
GlobLoopSkipsUnreadable ==
    /\ pc = "glob_loop"
    /\ dirs # <<>>
    /\ LET d == dirs[1].path IN
        \/ /\ IsDirAt(remote, d)
           /\ \E entries \in ReadDirResults(d) :
                /\ dirs' = Tail(dirs \o SelectSeq(entries, IsDirEntry))
                /\ files' = files \o SelectSeq(entries, IsFileEntry)
           /\ io' = Append(io, Ev("readdir", d, TRUE))
           /\ UNCHANGED <<config, touch, remote, local, clock, run, pc, li, k, cur,
                          contents, result, exit, calls>>
        \/ /\ dirs' = Tail(dirs)
           /\ io' = Append(io, Ev("readdir", d, FALSE))
           /\ UNCHANGED <<config, touch, remote, local, clock, run, pc, li, k, files,
                          cur, contents, result, exit, calls>>

\* One iteration of `while dirs.len() != 0`.
GlobLoop ==
    /\ pc = "glob_loop"
    /\ dirs # <<>>
    /\ LET d == dirs[1].path IN
        \/ /\ IsDirAt(remote, d)
           /\ \E entries \in ReadDirResults(d) :
                /\ dirs' = Tail(dirs \o SelectSeq(entries, IsDirEntry))
                /\ files' = files \o SelectSeq(entries, IsFileEntry)
           /\ io' = Append(io, Ev("readdir", d, TRUE))
           /\ UNCHANGED <<config, touch, remote, local, clock, run, pc, li, k, cur,
                          contents, result, exit, calls>>
        \/ Raise("readdir", d)

\* Ok(files), assigned to files in sync_location.
GlobReturn ==
    /\ pc = "glob_loop"
    /\ dirs = <<>>
    /\ pc' = "for_files"
    /\ UNCHANGED <<config, touch, remote, local, clock, run, li, k, files, dirs, cur,
                   contents, result, exit, io, calls>>

\* --------------------------------------------- sync_location: the file loop

\* The process panics (an unwrap of None): main never returns an exit code.
Panic(op, path) ==
    /\ io' = Append(io, Ev(op, path, FALSE))
    /\ exit' = "PANIC"
    /\ pc' = "exited"
    /\ UNCHANGED <<config, touch, remote, local, clock, run, li, k, dirs, cur,
                   contents, result, calls>>

\* `for remote_file in files` is over: "Synced all files", Ok(()), and the
\* for loop of sync_locations goes on with the next location.
LocationDone ==
    /\ pc = "for_files"
    /\ files = <<>>
    /\ li' = li + 1
    /\ pc' = "locations"
    /\ UNCHANGED <<config, touch, remote, local, clock, run, k, files, dirs, cur,
                   contents, result, exit, io, calls>>

\* One remote_file of the loop: the local path, the two dates, and the call
\* of sync_file.
ForFiles ==
    /\ pc = "for_files"
    /\ files # <<>>
    /\ files' = Tail(files)
    /\ LET remote_file == Head(files)
           rel == StripPrefix(remote_file.path, Loc.remote_path)
           local_file == Join(Loc.local_path, rel.rel)
       IN  \/ /\ ~rel.ok
              /\ Fail("strip_prefix", remote_file.path)
           \/ /\ rel.ok
              /\ Fail("metadata", local_file)
           \/ /\ rel.ok
              /\ Exists(local, local_file)
              /\ Panic("atime", remote_file.path)
           \/ /\ rel.ok
              /\ Exists(local, local_file)
              /\ cur' = [local  |-> local_file,
                         ldate  |-> local[local_file].atime,
                         remote |-> remote_file.path,
                         rdate  |-> remote_file.stat.atime]
              /\ io' = Append(io, Ev("metadata", local_file, TRUE))
              /\ pc' = "sync_file"
              /\ UNCHANGED <<config, touch, remote, local, clock, run, li, k, dirs,
                             contents, result, exit, calls>>

\* ---------------------------------------------------------------- sync_file

\* Decide with the bug of breaking a tie in favour of the local file.
DecideTieBreak(ldate, rdate) ==
    IF ldate >= rdate THEN "PushToRemote" ELSE "PullToLocal"

\* The if / else if / else over the two dates.
Decide(ldate, rdate) ==
    IF ldate = rdate THEN "UpToDate"
    ELSE IF ldate > rdate THEN "PushToRemote"
    ELSE "PullToLocal"

Call(branch) ==
    [local |-> cur.local, ldate |-> cur.ldate, remote |-> cur.remote,
     rdate |-> cur.rdate, branch |-> branch, loc |-> li, run |-> run]

\* SyncFile with the bug of sending a file that is up to date.
SyncFileResends ==
    /\ pc = "sync_file"
    /\ LET branch == Decide(cur.ldate, cur.rdate) IN
        /\ calls' = Append(calls, Call(branch))
        /\ pc' = IF branch = "PullToLocal" THEN "pull_create" ELSE "push_open"
        /\ io' = io
    /\ UNCHANGED <<config, touch, remote, local, clock, run, li, k, files, dirs, cur,
                   contents, result, exit>>

\* Entry of sync_file: the branch taken; the up-to-date branch prints and
\* returns Ok(()).
SyncFile ==
    /\ pc = "sync_file"
    /\ LET branch == Decide(cur.ldate, cur.rdate) IN
        /\ calls' = Append(calls, Call(branch))
        /\ pc' = CASE branch = "UpToDate"     -> "for_files"
                   [] branch = "PushToRemote" -> "push_open"
                   [] branch = "PullToLocal"  -> "pull_create"
        /\ io' = IF branch = "UpToDate"
                 THEN Append(io, EvC("up_to_date", cur.local, TRUE, Len(calls) + 1))
                 ELSE io
    /\ UNCHANGED <<config, touch, remote, local, clock, run, li, k, files, dirs, cur,
                   contents, result, exit>>

\* Push: fs::File::open(local.0).
PushOpen ==
    /\ pc = "push_open"
    /\ \/ Proceed("open", cur.local, "push_read")
       \/ Raise("open", cur.local)

\* Push: buf.read_to_end(&mut contents)?, evaluated before scp_send is called.
PushRead ==
    /\ pc = "push_read"
    /\ \/ /\ ~IsDirAt(local, cur.local)
          /\ contents' = local[cur.local].data
          /\ local' = Touched(local, cur.local, touch.local)
          /\ io' = Append(io, Ev("read", cur.local, TRUE))
          /\ pc' = "push_send"
          /\ UNCHANGED <<config, touch, remote, clock, run, li, k, files, dirs, cur,
                         result, exit, calls>>
       \/ Raise("read", cur.local)

\* The remote file once the write stream is open: created or emptied.
Emptied(fs, p) ==
    IF IsDirAt(fs, p) THEN fs
    ELSE [q \in DOMAIN fs \cup {p} |->
            IF q = p THEN Node("file", IF Exists(fs, p) THEN fs[p].atime ELSE clock, <<>>)
            ELSE fs[q]]

\* The file at p holding data.
Written(fs, p, data) ==
    IF IsDirAt(fs, p) THEN fs ELSE [fs EXCEPT ![p].data = data]

\* The proper prefixes of data: what a copy that failed may have written.
Partial(data) == {SubSeq(data, 1, n) : n \in 0..(Len(data) - 1)}

\* Push: session.scp_send(remote.0, 0o644, size, None).
PushSend ==
    /\ pc = "push_send"
    /\ \/ /\ remote' = Emptied(remote, cur.remote)
          /\ io' = Append(io, Ev("scp_send", cur.remote, TRUE))
          /\ pc' = "push_write"
          /\ UNCHANGED <<config, touch, local, clock, run, li, k, files, dirs, cur,
                         contents, result, exit, calls>>
       \/ Raise("scp_send", cur.remote)

\* Push: remote_file.write_all(&mut contents).
PushWrite ==
    /\ pc = "push_write"
    /\ \/ /\ remote' = Touched(Written(remote, cur.remote, contents), cur.remote,
                             touch.remote)
          /\ io' = Append(io, Ev("write", cur.remote, TRUE))
          /\ pc' = "send_eof"
          /\ UNCHANGED <<config, touch, local, clock, run, li, k, files, dirs, cur,
                         contents, result, exit, calls>>
       \/ /\ \E part \in Partial(contents) :
                remote' = Written(remote, cur.remote, part)
          /\ io' = Append(io, Ev("write", cur.remote, FALSE))
          /\ Bail
          /\ UNCHANGED <<config, touch, local, clock, run, li, k, files, dirs, cur,
                         contents, exit, calls>>

\* PullCreate with the bug of leaving the content of an existing file until
\* the first bytes arrive.
PullCreateKeeps ==
    /\ pc = "pull_create"
    /\ \/ /\ ~IsDirAt(local, cur.local)
          /\ local' = local
          /\ io' = Append(io, Ev("create", cur.local, TRUE))
          /\ pc' = "pull_recv"
          /\ UNCHANGED <<config, touch, remote, clock, run, li, k, files, dirs, cur,
                         contents, result, exit, calls>>
       \/ Raise("create", cur.local)

\* Pull: fs::File::create(local.0) creates the file or empties it.
PullCreate ==
    /\ pc = "pull_create"
    /\ \/ /\ ~IsDirAt(local, cur.local)
          /\ local' = Emptied(local, cur.local)
          /\ io' = Append(io, Ev("create", cur.local, TRUE))
          /\ pc' = "pull_recv"
          /\ UNCHANGED <<config, touch, remote, clock, run, li, k, files, dirs, cur,
                         contents, result, exit, calls>>
       \/ Raise("create", cur.local)

\* Pull: session.scp_recv(remote.0).
PullRecv ==
    /\ pc = "pull_recv"
    /\ \/ /\ ~IsDirAt(remote, cur.remote)
          /\ Proceed("scp_recv", cur.remote, "pull_copy")
       \/ Raise("scp_recv", cur.remote)

\* Pull: copy(&mut remote_file, &mut local_file).
PullCopy ==
    /\ pc = "pull_copy"
    /\ \/ /\ local' = Touched(Written(local, cur.local, remote[cur.remote].data),
                            cur.local, touch.local)
          /\ remote' = Touched(remote, cur.remote, touch.remote)
          /\ io' = Append(io, Ev("copy", cur.remote, TRUE))
          /\ pc' = "send_eof"
          /\ UNCHANGED <<config, touch, clock, run, li, k, files, dirs, cur,
                         contents, result, exit, calls>>
       \/ /\ \E part \in Partial(remote[cur.remote].data) :
                local' = Written(local, cur.local, part)
          /\ io' = Append(io, Ev("copy", cur.remote, FALSE))
          /\ Bail
          /\ UNCHANGED <<config, touch, remote, clock, run, li, k, files, dirs, cur,
                         contents, exit, calls>>

\* CloseStep with the bug of dropping the step's result instead of `?`.
CloseStepUnchecked(at, op, next) ==
    /\ pc = at
    /\ \E ok \in BOOLEAN : io' = Append(io, Ev(op, cur.remote, ok))
    /\ pc' = next
    /\ UNCHANGED <<config, touch, remote, local, clock, run, li, k, files, dirs, cur,
                   contents, result, exit, calls>>

\* "Properly close channel": one step of the four, in both branches.
CloseStep(at, op, next) ==
    /\ pc = at
    /\ \/ Proceed(op, cur.remote, next)
       \/ Raise(op, cur.remote)

SendEof  == CloseStep("send_eof",  "send_eof",  "wait_eof")
WaitEof  == CloseStep("wait_eof",  "wait_eof",  "close")
Close    == CloseStep("close",     "close",     "wait_close")
WaitClose == CloseStep("wait_close", "wait_close", "updated")

\* println!("Updated ..") and Ok(()): back in the loop of sync_location.
Updated ==
    /\ pc = "updated"
    /\ Proceed("updated", IF calls[Len(calls)].branch = "PushToRemote"
                          THEN cur.remote ELSE cur.local, "for_files")

\* --------------------------------------------------------------------- main

\* Main with the bug of synchronizing whatever auto_sync says.
MainIgnoresAutoSync ==
    /\ pc = "main"
    /\ \/ /\ io' = Append(io, Ev("init", <<>>, FALSE))
          /\ exit' = "FAILURE"
          /\ pc' = "exited"
       \/ /\ io' = Append(io, Ev("init", <<>>, TRUE))
          /\ exit' = exit
          /\ pc' = "connect"
    /\ UNCHANGED <<config, touch, remote, local, clock, run, li, k, files, dirs, cur,
                   contents, result, calls>>

\* main up to the call of sync_locations: init() fails, or auto_sync is off,
\* or the synchronization starts.
Main ==
    /\ pc = "main"
    /\ \/ /\ io' = Append(io, Ev("init", <<>>, FALSE))
          /\ exit' = "FAILURE"
          /\ pc' = "exited"
       \/ /\ io' = Append(io, Ev("init", <<>>, TRUE))
          /\ ~config.auto_sync
          /\ exit' = "SUCCESS"
          /\ pc' = "exited"
       \/ /\ io' = Append(io, Ev("init", <<>>, TRUE))
          /\ config.auto_sync
          /\ exit' = exit
          /\ pc' = "connect"
    /\ UNCHANGED <<config, touch, remote, local, clock, run, li, k, files, dirs, cur,
                   contents, result, calls>>

\* The match on what sync_locations returned.
MainReturn ==
    /\ pc = "returned"
    /\ exit' = IF result[run] = "Ok" THEN "SUCCESS" ELSE "FAILURE"
    /\ pc' = "exited"
    /\ UNCHANGED <<config, touch, remote, local, clock, run, li, k, files, dirs, cur,
                   contents, result, io, calls>>

\* The program is started again, at once or a second later; the filesystems
\* are as the run before left them.
Rerun ==
    /\ pc = "exited"
    /\ run < MaxRuns
    /\ run' = run + 1
    /\ clock' \in {clock, clock + 1}
    /\ pc' = "main"
    /\ li' = 1
    /\ k' = 1
    /\ files' = <<>>
    /\ dirs' = <<>>
    /\ cur' = NoPair
    /\ contents' = <<>>
    /\ exit' = "none"
    /\ UNCHANGED <<config, touch, remote, local, result, io, calls>>

\* ------------------------------------------------------------ specifications

Next ==
    \/ Main \/ MainReturn
    \/ Connect \/ NewSession \/ Handshake \/ Userauth \/ NextLocation
    \/ OpenSftp \/ StatFile \/ StatDone
    \/ GlobRoot \/ GlobLoop \/ GlobReturn
    \/ ForFiles \/ LocationDone
    \/ SyncFile
    \/ PushOpen \/ PushRead \/ PushSend \/ PushWrite
    \/ PullCreate \/ PullRecv \/ PullCopy
    \/ SendEof \/ WaitEof \/ Close \/ WaitClose \/ Updated

\* One run of the program.
Spec == Init /\ [][Next]_vars

\* Two runs in succession, of a configuration whose files all exist.
InitTwice ==
    /\ Init
    /\ config = [auto_sync |-> TRUE, locations |-> <<LocTree, LocList>>]
    /\ local = LocalFs("file", "file")
    /\ \E ta, tg \in Times : remote = RemoteFs(ta, 1, tg, "file")

NextTwice == Next \/ Rerun

SpecTwice == InitTwice /\ [][NextTwice]_vars

\* The tree walk alone, on every remote tree of depth MaxDepth at most whose
\* directories hold entries named a and b.
RECURSIVE TreesUnder(_, _)
TreesUnder(dir, depth) ==
    IF depth = 0 THEN {{}}
    ELSE LET Entry(n) ==
                 {{}}
                 \cup {{<<Join(dir, <<n>>), Node("file", 1, RemoteData)>>}}
                 \cup {{<<Join(dir, <<n>>), Node("dir", 1, <<>>)>>} \cup sub :
                          sub \in TreesUnder(Join(dir, <<n>>), depth - 1)}
         IN  {x \cup y : x \in Entry("a"), y \in Entry("b")}

LocWalk == Location("W", <<"l">>, <<"r">>, <<>>)

\* sync_location about to call glob_location, the remote tree being one of
\* trees.
InitWalkOn(trees) ==
    /\ config = [auto_sync |-> TRUE, locations |-> <<LocWalk>>]
    /\ touch = [local |-> FALSE, remote |-> FALSE]
    /\ \E tree \in trees :
          remote = FsOf(tree \cup {<< <<"r">>, Node("dir", 1, <<>>) >>})
    /\ local = FsOf({<< <<"l">>, Node("dir", 1, <<>>) >>})
    /\ clock = MaxTime + 1
    /\ run = 1
    /\ result = [r \in 1..MaxRuns |-> "none"]
    /\ calls = <<>>
    /\ li = 1
    /\ k = 1
    /\ files = <<>>
    /\ dirs = <<>>
    /\ cur = NoPair
    /\ contents = <<>>
    /\ exit = "none"
    /\ io = [i \in 1..6 |->
               EvC(<<"init", "connect", "session_new", "handshake", "userauth",
                     "sftp">>[i], <<>>, TRUE, 0)]
    /\ pc = "glob_root"

InitWalk == InitWalkOn(TreesUnder(<<"r">>, MaxDepth))

NextWalk == GlobRoot \/ GlobLoop \/ GlobReturn

SpecWalk == InitWalk /\ [][NextWalk]_vars

\* The trees of TreesUnder in which every directory above the depth bound
\* holds a, a file or a directory, and may hold the directory b.
RECURSIVE BranchingTrees(_, _)
BranchingTrees(dir, depth) ==
    IF depth = 0 THEN {{}}
    ELSE LET Sub(n) ==
                 {{<<Join(dir, <<n>>), Node("dir", 1, <<>>)>>} \cup sub :
                     sub \in BranchingTrees(Join(dir, <<n>>), depth - 1)}
         IN  {x \cup y :
                 x \in {{<<Join(dir, <<"a">>), Node("file", 1, RemoteData)>>}} \cup Sub("a"),
                 y \in {{}} \cup Sub("b")}

InitWalkLive == InitWalkOn(BranchingTrees(<<"r">>, MaxDepth))

\* The walk as the sequential program runs it: it keeps taking steps.
SpecWalkLive == InitWalkLive /\ [][NextWalk]_vars /\ WF_vars(NextWalk)

\* ------------------------------------------------------------------ claims

Ops(S) == {i \in DOMAIN io : io[i].op \in S}

\* The events of sync_file call c.
OfCall(c) == {i \in DOMAIN io : io[i].call = c}

IsExplicit(j) == config.locations[j].files # <<>>

\* The remote paths an explicit list names.
Listed(j) ==
    {Join(config.locations[j].remote_path, config.locations[j].files[n]) :
        n \in DOMAIN config.locations[j].files}

SessionOps == {"connect", "session_new", "handshake", "userauth"}
TransferOps == {"open", "read", "scp_send", "write", "create", "scp_recv", "copy"}
CloseOps == {"send_eof", "wait_eof", "close", "wait_close"}
PairOps == {"strip_prefix", "metadata", "atime"} \cup TransferOps \cup CloseOps

\* C1: every sync_file call takes exactly one of the three branches, the one
\* its two timestamps name: equal gives UpToDate and no transfer, local >
\* remote gives PushToRemote (scp_send only), local < remote gives
\* PullToLocal (scp_recv only).
C1_DecisionTotal ==
    /\ \A l, r \in Times :
          /\ l = r <=> Decide(l, r) = "UpToDate"
          /\ l > r <=> Decide(l, r) = "PushToRemote"
          /\ l < r <=> Decide(l, r) = "PullToLocal"
    /\ \A c \in DOMAIN calls :
        LET l == calls[c].ldate
            r == calls[c].rdate
            did(op) == \E i \in OfCall(c) : io[i].op = op
        IN  /\ l = r => /\ calls[c].branch = "UpToDate"
                        /\ \A i \in OfCall(c) : io[i].op = "up_to_date"
            /\ l > r => /\ calls[c].branch = "PushToRemote"
                        /\ ~did("scp_recv") /\ ~did("create") /\ ~did("up_to_date")
            /\ l < r => /\ calls[c].branch = "PullToLocal"
                        /\ ~did("scp_send") /\ ~did("open") /\ ~did("up_to_date")

C1_Witness ==
    /\ \E c \in DOMAIN calls : calls[c].ldate = calls[c].rdate
    /\ \E i \in Ops({"scp_send"}) : io[i].ok /\ calls[io[i].call].ldate > calls[io[i].call].rdate
    /\ \E i \in Ops({"scp_recv"}) : io[i].ok /\ calls[io[i].call].ldate < calls[io[i].call].rdate

\* C2: when a pair of a location fails, sync_location still attempts every
\* other pair of that location: once sync_locations has returned after a
\* failed pair, no pair of the location is left in files.
C2_PairIsolation ==
    (/\ pc = "returned"
     /\ io # <<>>
     /\ io[Len(io)].op \in PairOps
     /\ ~io[Len(io)].ok) => files = <<>>

\* C3: a location that fails does not keep the locations declared after it
\* from being attempted: when sync_locations has returned, sync_location was
\* called (its session.sftp() was made) for every location after one in
\* which a call failed.
C3_LocationIsolation ==
    pc = "returned" =>
        \A i \in DOMAIN io :
            (~io[i].ok /\ io[i].op \notin SessionOps /\ io[i].op # "stat") =>
                \A j \in (io[i].loc + 1)..Len(config.locations) :
                    \E n \in Ops({"sftp"}) : io[n].loc = j

\* The sync_file calls that left their pair synchronized: up to date, or
\* transferred and reported as updated.
Synced(c) ==
    \/ calls[c].branch = "UpToDate"
    \/ \E i \in OfCall(c) : io[i].op = "updated"

\* The files of the remote tree under root.
FilesUnder(root) ==
    {p \in DOMAIN remote : p # root /\ IsPrefix(root, p) /\ remote[p].kind # "dir"}

\* The pairs that belong to location j.
PairsOf(j) ==
    IF IsExplicit(j) THEN Listed(j)
    ELSE FilesUnder(config.locations[j].remote_path)

\* C4: sync_locations returns Ok only if every pair of every location was
\* transferred or found up to date.
C4_OkMeansAllSynced ==
    result[run] = "Ok" =>
        \A j \in DOMAIN config.locations : \A p \in PairsOf(j) :
            \E c \in DOMAIN calls :
                /\ calls[c].loc = j
                /\ calls[c].remote = p
                /\ Synced(c)

\* C5: a file of an explicit list that is missing on either side makes the
\* location fail: once its location is done without an error, every listed
\* file exists on both sides.
C5_MissingListedFileFails ==
    \A j \in DOMAIN config.locations :
        (IsExplicit(j) /\ (li > j \/ result[run] = "Ok")) =>
            \A n \in DOMAIN config.locations[j].files :
                LET f == config.locations[j].files[n] IN
                    /\ Exists(remote, Join(config.locations[j].remote_path, f))
                    /\ Exists(local, Join(config.locations[j].local_path, f))

\* C6: in a location with an explicit list, only the listed files are handed
\* to sync_file or touched by a remote call, and no directory is listed.
C6_OnlyListedFiles ==
    /\ \A c \in DOMAIN calls :
          IsExplicit(calls[c].loc) => calls[c].remote \in Listed(calls[c].loc)
    /\ \A i \in DOMAIN io :
          IsExplicit(io[i].loc) =>
              /\ io[i].op # "readdir"
              /\ io[i].op \in {"stat", "scp_send", "scp_recv", "write", "copy"}
                    => io[i].path \in Listed(io[i].loc)

C6_Witness ==
    /\ Exists(remote, <<"rb", "x">>)
    /\ \E c \in DOMAIN calls :
          /\ IsExplicit(calls[c].loc)
          /\ calls[c].remote = <<"rb", "h">>
          /\ \E i \in OfCall(c) : io[i].op = "updated"
    /\ pc = "exited"
    /\ result[run] = "Ok"

IsFileAt(fs, p) == Exists(fs, p) /\ fs[p].kind = "file"

\* C7: in a location with an explicit list, no transfer call (open, create,
\* scp_send, scp_recv) is made for an entry whose local or remote path is
\* not an existing regular file.
C7_RegularFilesOnly ==
    \A i \in Ops({"open", "create", "scp_send", "scp_recv"}) :
        IsExplicit(io[i].loc) =>
            /\ IsFileAt(remote, calls[io[i].call].remote)
            /\ IsFileAt(local, calls[io[i].call].local)

\* C8: what glob_location returns holds every file under the remote root
\* exactly once, in whatever order the directories were listed.
C8_WalkComplete ==
    pc = "for_files" =>
        /\ {files[i].path : i \in DOMAIN files} = FilesUnder(Loc.remote_path)
        /\ \A i, j \in DOMAIN files : files[i].path = files[j].path => i = j

C8_Witness ==
    /\ pc = "for_files"
    /\ Len(files) >= 3
    /\ files[1].path = Join(Loc.remote_path, <<"b">>)
    /\ files[2].path = Join(Loc.remote_path, <<"a", "b">>)
    /\ Cardinality(Ops({"readdir"})) >= 2

\* C9: a second run that follows a completed first run finds every pair up
\* to date and transfers nothing.
C9_Idempotent ==
    (/\ run = 2
     /\ pc = "exited"
     /\ result[1] = "Ok"
     /\ result[2] = "Ok") =>
        /\ \A c \in DOMAIN calls : calls[c].run = 2 => calls[c].branch = "UpToDate"
        /\ \A i \in Ops(TransferOps) : io[i].run = 1

\* The event before event i within the same sync_file call is op, and it
\* succeeded.
After(i, ops) ==
    /\ i > 1
    /\ io[i - 1].op \in ops
    /\ io[i - 1].ok
    /\ io[i - 1].call = io[i].call
    /\ io[i - 1].run = io[i].run

\* C10: in both transfers send_eof, wait_eof, close and wait_close are made
\* in that order, each after the one before it succeeded and the first after
\* the bytes were copied; the pair is reported as updated only after
\* wait_close succeeded; a step that fails makes sync_file return the error.
C10_CloseSequence ==
    \A i \in DOMAIN io :
        /\ io[i].op = "send_eof"   => After(i, {"write", "copy"})
        /\ io[i].op = "wait_eof"   => After(i, {"send_eof"})
        /\ io[i].op = "close"      => After(i, {"wait_eof"})
        /\ io[i].op = "wait_close" => After(i, {"close"})
        /\ io[i].op = "updated"    => After(i, {"wait_close"})
        /\ (io[i].op \in CloseOps /\ ~io[i].ok) =>
              /\ i = Len(io)
              /\ pc \in {"returned", "exited"}
              /\ result[run] = "Err"

C10_Witness ==
    /\ \E i \in Ops({"updated"}) : calls[io[i].call].branch = "PushToRemote"
    /\ \E i \in Ops({"updated"}) : calls[io[i].call].branch = "PullToLocal"
    /\ \E i \in Ops(CloseOps) : ~io[i].ok

\* C11: every pair handed to sync_file is remote_root/p and local_root/p
\* for one relative path p, in full-tree and in explicit-list locations; a
\* remote path that is not under remote_root makes strip_prefix fail, the
\* run return the error, and gives no pair.
C11_SameSuffix ==
    /\ \A c \in DOMAIN calls :
          LET L == config.locations[calls[c].loc] IN
              \E n \in 0..Len(calls[c].remote) :
                  LET p == SubSeq(calls[c].remote, n + 1, Len(calls[c].remote)) IN
                      /\ ~IsAbsolute(p)
                      /\ calls[c].remote = L.remote_path \o p
                      /\ calls[c].local = L.local_path \o p
    /\ \A i \in Ops({"strip_prefix"}) :
          /\ ~io[i].ok
          /\ ~IsPrefix(config.locations[io[i].loc].remote_path, io[i].path)
          /\ i = Len(io)
          /\ result[run] = "Err"
    /\ \A i \in Ops({"stat"}) :
          (/\ io[i].ok
           /\ ~IsPrefix(config.locations[io[i].loc].remote_path, io[i].path)
           /\ (li > io[i].loc \/ pc \in {"returned", "exited"})) =>
              \E n \in DOMAIN io : n > i /\ ~io[n].ok /\ io[n].loc = io[i].loc

C11_Witness ==
    /\ \E c \in DOMAIN calls : calls[c].remote = <<"ra", "d", "b">>
    /\ \E c \in DOMAIN calls : calls[c].remote = <<"rc", "k">>
    /\ \E i \in Ops({"strip_prefix"}) : io[i].path = <<"/", "e">>
    /\ pc = "exited"

\* C12: a readdir of the tree walk that fails, on the root or on a
\* subdirectory, ends the run with the error, and no file of that location
\* is compared or transferred, the files listed before the failure included.
C12_NoPartialTree ==
    \A i \in Ops({"readdir"}) :
        ~io[i].ok =>
            /\ i = Len(io) \/ io[i].run < run
            /\ result[io[i].run] = "Err"
            /\ \A c \in DOMAIN calls :
                  ~(calls[c].loc = io[i].loc /\ calls[c].run = io[i].run)
            /\ \A n \in Ops(PairOps \cup {"up_to_date", "updated"}) :
                  ~(io[n].loc = io[i].loc /\ io[n].run = io[i].run)

\* The listing of ra/d failed after the root's had returned the file ra/a.
C12_Witness ==
    /\ \E i \in Ops({"readdir"}) : ~io[i].ok /\ io[i].path = <<"ra", "d">>
    /\ \E n \in DOMAIN files : files[n].path = <<"ra", "a">>
    /\ pc = "exited"
    /\ exit = "FAILURE"

\* Event a and the three after it are the successful set-up of a session
\* in run r: connect, Session::new, handshake, userauth.
SessionAt(a, r) ==
    \A n \in 0..3 :
        /\ io[a + n].op = <<"connect", "session_new", "handshake", "userauth">>[n + 1]
        /\ io[a + n].ok
        /\ io[a + n].run = r

\* C13: a run sets up one session at most, and every call made for a
\* location (sftp, listing, stat, transfer) comes after a successful
\* connect, handshake and password authentication of that run, made in that
\* order; a step of the set-up that fails makes sync_locations return the
\* error, and nothing is done for any location.
C13_SessionFirst ==
    /\ \A i, n \in Ops(SessionOps) :
          (io[i].op = io[n].op /\ io[i].run = io[n].run) => i = n
    /\ \A i \in DOMAIN io :
          io[i].op \notin SessionOps \cup {"init"} =>
              \E a \in 1..(i - 4) : SessionAt(a, io[i].run)
    /\ \A c \in DOMAIN calls :
          \E a \in 1..(Len(io) - 3) : SessionAt(a, calls[c].run)
    /\ \A i \in Ops(SessionOps) :
          ~io[i].ok =>
              /\ result[io[i].run] = "Err"
              /\ \A n \in (i + 1)..Len(io) : io[n].run # io[i].run

C13_Witness ==
    /\ \E i \in Ops({"scp_recv"}) : io[i].ok
    /\ \E i \in Ops({"readdir"}) : io[i].ok
    /\ \E i \in Ops({"stat"}) : io[i].ok
    /\ \A i \in Ops(SessionOps) : io[i].ok
    /\ pc = "exited"

\* C14: in a location with an empty list no directory is handed to
\* sync_file: every remote path compared or transferred is a non-directory
\* entry of the tree under remote_root, and never the root itself.
C14_NoDirectoryInTree ==
    /\ \A c \in DOMAIN calls :
          ~IsExplicit(calls[c].loc) =>
              /\ calls[c].remote \in FilesUnder(config.locations[calls[c].loc].remote_path)
              /\ calls[c].remote # config.locations[calls[c].loc].remote_path
              /\ ~IsDirAt(remote, calls[c].remote)
    /\ \A i \in Ops({"scp_send", "scp_recv", "write", "copy"}) :
          ~IsExplicit(io[i].loc) => ~IsDirAt(remote, io[i].path)
    /\ (pc = "for_files" /\ ~IsExplicit(li)) =>
          \A n \in DOMAIN files : ~files[n].stat.is_dir

C14_Witness ==
    /\ \E c \in DOMAIN calls : calls[c].remote = <<"ra", "a">> /\ calls[c].branch = "PullToLocal"
    /\ \E c \in DOMAIN calls : calls[c].remote = <<"ra", "d", "b">> /\ calls[c].branch = "PushToRemote"
    /\ \E i \in Ops({"readdir"}) : io[i].ok /\ io[i].path = <<"ra", "d">>
    /\ result[run] = "Ok"

\* C15: a sync_file call whose two dates are equal does no I/O on either
\* side: it opens and creates nothing, prints that the file is up to date
\* and returns, and both filesystems are as they were.
C15_UpToDateNoIO ==
    [][(pc = "sync_file" /\ cur.ldate = cur.rdate) =>
          /\ remote' = remote
          /\ local' = local
          /\ contents' = contents
          /\ pc' = "for_files"
          /\ calls'[Len(calls')].branch = "UpToDate"
          /\ io' = Append(io, EvC("up_to_date", cur.local, TRUE, Len(calls')))]_vars

C15_Witness ==
    /\ pc = "for_files"
    /\ calls # <<>>
    /\ calls[Len(calls)].branch = "UpToDate"
    /\ io[Len(io)].op = "up_to_date"
    /\ io[Len(io)].call = Len(calls)

\* C16: a pair whose local access time (fs::metadata) or remote access time
\* (the atime of the stat) cannot be read ends in an error that
\* sync_locations returns, never in a crash of the process, and nothing is
\* transferred for it: a remote file with no local counterpart is not
\* pulled.
C16_TimestampErrorIsResult ==
    \A i \in Ops({"metadata", "atime"}) :
        ~io[i].ok =>
            /\ exit # "PANIC"
            /\ result[io[i].run] = "Err"
            /\ \A n \in (i + 1)..Len(io) : io[n].run # io[i].run
            /\ \A c \in DOMAIN calls :
                  ~(calls[c].run = io[i].run /\ calls[c].loc = io[i].loc
                    /\ io[i].path \in {calls[c].local, calls[c].remote})

\* C17: a transfer that is reported as updated was one byte-for-byte copy:
\* after a push the remote file holds the bytes read from the local file
\* (as many as were declared to scp_send), which the local file still
\* holds; after a pull the local file holds the content of the remote file.
C17_ExactCopy ==
    (pc = "for_files" /\ io # <<>> /\ io[Len(io)].op = "updated") =>
        LET c == calls[Len(calls)] IN
            /\ c.branch = "PushToRemote" =>
                  /\ remote[c.remote].data = contents
                  /\ Len(remote[c.remote].data) = Len(contents)
                  /\ local[c.local].data = contents
            /\ c.branch = "PullToLocal" =>
                  /\ local[c.local].data = remote[c.remote].data
                  /\ remote[c.remote].data = RemoteData

\* The successful listings of directory d.
Listings(d) == {i \in Ops({"readdir"}) : io[i].ok /\ io[i].path = d}

\* The directories of the remote tree at and under root.
DirsUnder(root) == {p \in DOMAIN remote : IsPrefix(root, p) /\ remote[p].kind = "dir"}

PathsOf(q) == {q[n].path : n \in DOMAIN q}

\* No directory is listed twice, the queue holds unlisted directories of the
\* tree, each once, and the walk returns when every directory was listed.
WalkListsOnce ==
    /\ \A d \in DirsUnder(Loc.remote_path) : Cardinality(Listings(d)) <= 1
    /\ \A n \in DOMAIN dirs :
          /\ dirs[n].path \in DirsUnder(Loc.remote_path)
          /\ Listings(dirs[n].path) = {}
          /\ \A m \in DOMAIN dirs : dirs[m].path = dirs[n].path => m = n
    /\ pc = "for_files" =>
          /\ dirs = <<>>
          /\ \A d \in DirsUnder(Loc.remote_path) : Cardinality(Listings(d)) = 1

\* An iteration takes the head of the queue and adds the subdirectories of
\* that directory, and nothing else.
WalkStep ==
    (pc = "glob_loop" /\ pc' = "glob_loop") =>
        /\ io' = Append(io, Ev("readdir", dirs[1].path, TRUE))
        /\ Len(dirs') = Len(dirs) - 1 + Cardinality(PathsOf(dirs') \ PathsOf(dirs))
        /\ PathsOf(dirs') =
              (PathsOf(dirs) \ {dirs[1].path})
              \cup {p \in Children(remote, dirs[1].path) : remote[p].kind = "dir"}

\* C18: the tree walk terminates on every finite remote tree: each
\* directory is taken from the queue and listed exactly once, each listing
\* adds only the subdirectories of the directory listed, and the queue
\* becomes empty (glob_location returns) unless a listing fails.
C18_WalkTerminates ==
    /\ []WalkListsOnce
    /\ [][WalkStep]_vars
    /\ <>(pc \in {"for_files", "returned"})

C18_Witness ==
    /\ pc = "for_files"
    /\ dirs = <<>>
    /\ Cardinality(DirsUnder(Loc.remote_path)) = 3
    /\ \A d \in DirsUnder(Loc.remote_path) : Cardinality(Listings(d)) = 1

\* The last call made failed, and it was op.
JustFailed(ops) ==
    /\ pc = "returned"
    /\ io # <<>>
    /\ io[Len(io)].op \in ops
    /\ ~io[Len(io)].ok

\* scp_recv is called after the local file was created, scp_send after the
\* local file was opened and read; when scp_recv or the copy has failed the
\* local file no longer holds what it held.
PullEmptiesFirst ==
    /\ \A i \in DOMAIN io :
          /\ io[i].op = "scp_recv" => After(i, {"create"})
          /\ io[i].op = "scp_send" => After(i, {"read"})
          /\ io[i].op = "read"     => After(i, {"open"})
    /\ JustFailed({"scp_recv", "copy"}) =>
          /\ result[run] = "Err"
          /\ local[cur.local].data # LocalData
          /\ io[Len(io)].op = "scp_recv" => local[cur.local].data = <<>>

\* The steps of a push before scp_send leave the remote side as it is, and
\* the creation of the local file in a pull empties it.
PushReadsFirst ==
    /\ pc \in {"push_open", "push_read"} => remote' = remote
    /\ (pc \in {"push_open", "push_read"} /\ pc' = "returned") =>
          result'[run] = "Err"
    /\ (pc = "pull_create" /\ pc' = "pull_recv") =>
          /\ local'[cur.local].data = <<>>
          /\ remote' = remote

\* C19: a pull creates (empties) the local file before it opens the remote
\* stream, so a failed scp_recv or copy returns the error with the previous
\* local content lost; a push reads the local file to its end before it
\* opens the remote stream, so a failed open or read leaves the remote file
\* untouched.
C19_OrderOfEffects ==
    /\ []PullEmptiesFirst
    /\ [][PushReadsFirst]_vars

C19_Witness ==
    /\ JustFailed({"copy"})
    /\ local[cur.local].data = <<2>>
    /\ \E i \in Ops({"scp_send"}) : io[i].ok

\* The events of the current run that follow init().
SinceInit == {i \in DOMAIN io : io[i].run = run /\ io[i].op # "init"}

\* init() returned the configuration in the current run.
Loaded == \E i \in Ops({"init"}) : io[i].run = run /\ io[i].ok

\* C20: with a loaded configuration whose auto_sync is false, main opens no
\* session, lists and transfers nothing and exits with success; with
\* auto_sync true the exit status is success exactly when sync_locations
\* returned Ok.
C20_AutoSyncGate ==
    /\ (Loaded /\ ~config.auto_sync) =>
          /\ SinceInit = {}
          /\ \A c \in DOMAIN calls : calls[c].run # run
          /\ result[run] = "none"
          /\ pc = "exited"
          /\ exit = "SUCCESS"
    /\ (Loaded /\ config.auto_sync /\ pc = "exited") =>
          (exit = "SUCCESS" <=> result[run] = "Ok")
    /\ (Loaded /\ config.auto_sync /\ pc # "exited") => exit = "none"

C20_Witness ==
    /\ Loaded
    /\ ~config.auto_sync
    /\ pc = "exited"
    /\ exit = "SUCCESS"
    /\ Len(io) = 1

=============================================================================
